---- MODULE Spec2Model ----
(***************************************************************************)
(* twitterapi.io MCP server: src/main.py (TwitterAPIContext, the lifespan, *)
(* the fourteen tools) and src/utils.py (the formatters).                  *)
(*                                                                         *)
(* Conventions of the translation                                          *)
(*   - a Python dict (a JSON object) is a function from its keys; a key    *)
(*     that is absent is outside DOMAIN; {} and [] are both <<>> (both are *)
(*     falsy in Python, and the code only tests their truth);              *)
(*   - an Optional value is <<>> (None) or <<v>>;                          *)
(*   - an f-string is rendered as lines, a line being the sequence of its  *)
(*     literal pieces and interpolated values, numbers through ToString;   *)
(*   - an exception is a record [type, msg], msg standing for str(e).      *)
(***************************************************************************)
EXTENDS Integers, Sequences, FiniteSets, TLC

VARIABLES
    env,        \* os.environ: TWITTER_API_KEY and MAX_TWEETS, Optional strings
    pc,         \* where twitter_lifespan stands
    client,     \* the httpx.AsyncClient: "none", "open", "closed"
    created,    \* how many httpx.AsyncClient objects have been created
    ctx,        \* the TwitterAPIContext in use: <<>> or <<[api_key, client, base_url]>>
    selftest,   \* the startup connection test: its requests and its response
    calls,      \* the tool invocations, by slot
    direct,     \* a gateway operation called on the context directly
    fmt         \* a formatter of utils.py applied to a value

vars == <<env, pc, client, created, ctx, selftest, calls, direct, fmt>>

\* ------------------------------------------------------------------ bounds

\* invocations that may be in flight at once
MaxCalls == 2
\* longest collection (tweets, users, trends, before, after) of a response
MaxLen == 2
\* how far above the maximum a requested count goes
MaxOver == 2

\* ------------------------------------------------------------ Python basics

None == <<>>
Some(v) == <<v>>

Has(d, k) == k \in DOMAIN d

\* dict.get(k, default)
Get(d, k, default) == IF Has(d, k) THEN d[k] ELSE default

Restrict(d, S) == [k \in S |-> d[k]]

RECURSIVE Flatten(_)
Flatten(ss) == IF ss = <<>> THEN <<>> ELSE Head(ss) \o Flatten(Tail(ss))

Min(a, b) == IF a < b THEN a ELSE b

Digits == <<"0", "1", "2", "3", "4", "5", "6", "7", "8", "9">>

DigitValue(c) == (CHOOSE i \in 1..10 : Digits[i] = c) - 1

IsDigit(c) == \E i \in 1..10 : Digits[i] = c

RECURSIVE DigitsValue(_, _)
DigitsValue(cs, acc) ==
    IF cs = <<>> THEN acc
    ELSE DigitsValue(Tail(cs), 10 * acc + DigitValue(Head(cs)))

\* int(s) of a string given as its characters: an optional sign and one or more
\* digits; anything else is a ValueError (None here)
PyInt(cs) ==
    LET signed == cs # <<>> /\ Head(cs) \in {"-", "+"}
        body   == IF signed THEN Tail(cs) ELSE cs
    IN  IF body = <<>> \/ \E i \in 1..Len(body) : ~IsDigit(body[i])
        THEN None
        ELSE Some(IF signed /\ Head(cs) = "-"
                  THEN 0 - DigitsValue(body, 0)
                  ELSE DigitsValue(body, 0))

\* os.getenv(name, default)
getenv(e, name, default) == IF e[name] = None THEN default ELSE e[name][1]

\* ------------------------------------------------------- Endpoint Gateway

BASE_URL == "https://api.twitterapi.io"

\* the dataclass of lines 28-34; client is the number of the AsyncClient it holds
TwitterAPIContext(api_key, client_no) ==
    [api_key |-> api_key, client |-> client_no, base_url |-> BASE_URL]

\* client_get with the key sent as a query parameter instead of the header
client_get_KeyInQuery(c, path, params) ==
    [method  |-> "GET",
     client  |-> c.client,
     url     |-> c.base_url \o path,
     headers |-> <<>>,
     params  |-> params @@ ("api_key" :> c.api_key)]

\* self.client.get(f"{self.base_url}<path>", headers={"x-api-key": ...}, params=...)
client_get(c, path, params) ==
    [method  |-> "GET",
     client  |-> c.client,
     url     |-> c.base_url \o path,
     headers |-> ("x-api-key" :> c.api_key),
     params  |-> params]

ctx_get_tweet(c, tweet_id) ==
    client_get(c, "/twitter/tweets", ("tweet_ids" :> tweet_id))

ctx_get_user(c, username) ==
    client_get(c, "/twitter/user/info", ("userName" :> username))

RECURSIVE Join(_, _)
\* sep.join(parts), strings as character sequences
Join(parts, sep) ==
    IF parts = <<>> THEN <<>>
    ELSE IF Len(parts) = 1 THEN parts[1]
    ELSE parts[1] \o sep \o Join(Tail(parts), sep)

ctx_batch_get_users_by_ids(c, user_ids) ==
    client_get(c, "/twitter/user/user_by_ids",
               ("userIds" :> Join(user_ids, <<",">>)))

ctx_get_user_tweets(c, username, count) ==
    client_get(c, "/twitter/user/tweets",
               ("userName" :> username @@ "count" :> count))

ctx_get_user_followers(c, username, count) ==
    client_get(c, "/twitter/user/followers",
               ("userName" :> username @@ "count" :> count))

\* get_user_following sent to the path of get_user_followers
ctx_get_user_following_FollowersPath(c, username, count) ==
    client_get(c, "/twitter/user/followers",
               ("userName" :> username @@ "count" :> count))

ctx_get_user_following(c, username, count) ==
    client_get(c, "/twitter/user/followings",
               ("userName" :> username @@ "count" :> count))

\* "if v: params[name] = v"
OptionalParam(name, truthy, value) ==
    IF truthy THEN (name :> value) ELSE <<>>

\* since_time and until_time are Optional ints; "if since_time:" is false for
\* None and for 0
TruthyOptInt(o) == o # None /\ o[1] # 0

OptIntValue(o) == IF o = None THEN 0 ELSE o[1]

ctx_get_user_mentions(c, username, count, cursor, since_time, until_time) ==
    client_get(c, "/twitter/user/mentions",
               ("userName" :> username @@ "count" :> count)
               @@ OptionalParam("cursor", cursor # "", cursor)
               @@ OptionalParam("sinceTime", TruthyOptInt(since_time),
                                OptIntValue(since_time))
               @@ OptionalParam("untilTime", TruthyOptInt(until_time),
                                OptIntValue(until_time)))

ctx_search_tweets(c, query, query_type, count, cursor) ==
    client_get(c, "/twitter/tweet/advanced_search",
               ("query" :> query @@ "queryType" :> query_type @@ "count" :> count)
               @@ OptionalParam("cursor", cursor # "", cursor))

ctx_get_tweet_replies(c, tweet_id, count) ==
    client_get(c, "/twitter/tweet/replies",
               ("tweetId" :> tweet_id @@ "count" :> count))

ctx_get_tweet_quotations(c, tweet_id, count) ==
    client_get(c, "/twitter/tweet/quotes",
               ("tweetId" :> tweet_id @@ "count" :> count))

ctx_get_tweet_retweeters(c, tweet_id, count) ==
    client_get(c, "/twitter/tweet/retweeters",
               ("tweetId" :> tweet_id @@ "count" :> count))

ctx_get_tweet_thread_context(c, tweet_id) ==
    client_get(c, "/twitter/tweet/thread_context", ("tweetId" :> tweet_id))

ctx_get_list_tweets(c, list_id, count) ==
    client_get(c, "/twitter/list/tweets",
               ("listId" :> list_id @@ "count" :> count))

ctx_get_trends(c) == client_get(c, "/twitter/trends", <<>>)

\* What the upstream does with a request: a 2xx response whose body is JSON
\* (an object, or some other JSON value), a 2xx response whose body is not
\* JSON, a non-2xx status, or no response at all.
\* "await self.client.get(...)", "response.raise_for_status()" and
\* "return response.json()": the exception raised, or the decoded body
Await(outcome) ==
    CASE outcome.kind = "transport" ->
           [exc |-> Some([type |-> "ConnectError", msg |-> "transport failure"]),
            body |-> <<>>]
      [] outcome.kind = "status" ->
           [exc |-> Some([type |-> "HTTPStatusError",
                          msg  |-> "status " \o ToString(outcome.status)]),
            body |-> <<>>]
      [] outcome.kind = "notjson" ->
           [exc |-> Some([type |-> "JSONDecodeError", msg |-> "Expecting value"]),
            body |-> <<>>]
      [] OTHER ->
           [exc |-> None, body |-> outcome.body]

\* ------------------------------------------------------ Response Formatter

\* a formatter or a rendering loop ends with its lines or with an exception
Lines(ls) == [exc |-> None, lines |-> ls]

Raise(type, msg) == [exc |-> Some([type |-> type, msg |-> msg]), lines |-> <<>>]

KeyError(k) == Raise("KeyError", "'" \o k \o "'")

BLANK == <<>>

\* the first of the keys, in the order the code subscripts them, that the item
\* lacks: a path <<k>> is item[k], a path <<k1, k2>> is item[k1][k2]
PathPresent(item, path) ==
    /\ Has(item, path[1])
    /\ Len(path) = 1 \/ Has(item[path[1]], path[2])

RECURSIVE FirstMissing(_, _)
FirstMissing(item, paths) ==
    IF paths = <<>> THEN None
    ELSE IF ~PathPresent(item, Head(paths)) THEN Some(Head(paths)[Len(Head(paths))])
    ELSE FirstMissing(item, Tail(paths))

LikesLine(indent, likes, retweets, replies) ==
    <<indent \o "Likes: ", ToString(likes), " | Retweets: ", ToString(retweets),
      " | Replies: ", ToString(replies)>>

\* the hashtags of format_tweet: [f"#{tag['text']}" for tag in ...]
RECURSIVE HashtagTokens(_)
HashtagTokens(tags) ==
    IF tags = <<>> THEN <<>>
    ELSE <<"#" \o Head(tags)["text"]>> \o HashtagTokens(Tail(tags))

\* format_tweet past its "if not tweet" test (lines 20-34)
format_tweet_body(tweet) ==
    LET author   == Get(tweet, "author", <<>>)
        hashtags == Get(Get(tweet, "entities", <<>>), "hashtags", <<>>)
        head == << <<"Tweet by @", Get(author, "userName", "unknown"), " (",
                     Get(author, "name", "Unknown"), "):">>,
                   BLANK,
                   <<Get(tweet, "text", "No content")>>,
                   BLANK,
                   <<"Posted at: ", Get(tweet, "createdAt", "unknown")>>,
                   LikesLine("", Get(tweet, "likeCount", 0),
                             Get(tweet, "retweetCount", 0),
                             Get(tweet, "replyCount", 0)) >>
    IN  IF hashtags = <<>> THEN Lines(head)
        ELSE IF \E i \in 1..Len(hashtags) : ~Has(hashtags[i], "text")
        THEN KeyError("text")
        ELSE Lines(head \o << <<"Hashtags: ">> \o HashtagTokens(hashtags) >>)

\* format_tweet without its "if not tweet" test
format_tweet_NoSentinel(tweet) == format_tweet_body(tweet)

format_tweet(tweet) ==
    IF tweet = <<>> THEN Lines(<< <<"Tweet not available">> >>)
    ELSE format_tweet_body(tweet)

format_tweet_list_item(i, tweet) ==
    LET author == Get(tweet, "author", <<>>)
    IN  << <<ToString(i), ". Tweet by @", Get(author, "userName", "unknown"), " (",
             Get(author, "name", "Unknown"), "):">>,
           <<"   ", Get(tweet, "text", "No content")>>,
           <<"   Posted at: ", Get(tweet, "createdAt", "unknown")>>,
           LikesLine("   ", Get(tweet, "likeCount", 0),
                     Get(tweet, "retweetCount", 0),
                     Get(tweet, "replyCount", 0)),
           BLANK >>

format_tweet_list(tweets) ==
    IF tweets = <<>> THEN Lines(<< <<"No tweets available">> >>)
    ELSE Lines(<< <<"Tweets (", ToString(Len(tweets)), "):">>, BLANK >>
               \o Flatten([i \in 1..Len(tweets) |->
                              format_tweet_list_item(i, tweets[i])]))

format_user(user) ==
    IF user = <<>> THEN Lines(<< <<"User not available">> >>)
    ELSE Lines(
        << <<"Twitter Profile: @", Get(user, "userName", "unknown"), " (",
             Get(user, "name", "Unknown"), ")">>,
           BLANK >>
        \o (IF Get(user, "description", "") # ""
            THEN << <<"Bio: ", user["description"]>>, BLANK >> ELSE <<>>)
        \o (IF Get(user, "location", "") # ""
            THEN << <<"Location: ", user["location"]>> >> ELSE <<>>)
        \o << <<"Followers: ", ToString(Get(user, "followers", 0)),
                " | Following: ", ToString(Get(user, "following", 0))>>,
              <<"Tweets: ", ToString(Get(user, "statusesCount", 0)),
                " | Media: ", ToString(Get(user, "mediaCount", 0))>>,
              <<"Account created: ", Get(user, "createdAt", "unknown")>> >>
        \o (IF Get(user, "isBlueVerified", FALSE)
            THEN << <<"(check mark) Blue Verified">> >> ELSE <<>>))

\* f"{n:,}": the decimal digits in groups of three
RECURSIVE Thousands(_)
Thousands(n) ==
    IF n < 0 THEN "-" \o Thousands(0 - n)
    ELSE IF n < 1000 THEN ToString(n)
    ELSE LET r == n % 1000
         IN  Thousands(n \div 1000) \o ","
             \o (IF r < 10 THEN "00" ELSE IF r < 100 THEN "0" ELSE "")
             \o ToString(r)

format_trend_item(i, trend) ==
    << <<ToString(i), ". ", Get(trend, "name", "Unknown")>> >>
    \o (IF Get(trend, "tweet_volume", 0) # 0
        THEN << <<"   Tweet volume: ", Thousands(trend["tweet_volume"])>> >>
        ELSE <<>>)
    \o (IF Get(trend, "description", "") # ""
        THEN << <<"   ", trend["description"]>> >> ELSE <<>>)
    \o << BLANK >>

format_trend(trends) ==
    IF trends = <<>> THEN Lines(<< <<"No trending topics available">> >>)
    ELSE Lines(<< <<"Current Twitter Trends:">>, BLANK >>
               \o Flatten([i \in 1..Len(trends) |-> format_trend_item(i, trends[i])]))

\* ------------------------------------------------------------------- tools

\* the keys each rendering loop of main.py subscripts, in the order it does
ItemPaths(kind) ==
    CASE kind = "recent" ->
           << <<"text">>, <<"createdAt">>, <<"likeCount">>, <<"retweetCount">>,
              <<"replyCount">> >>
      [] kind = "page" ->
           << <<"author">>, <<"author", "userName">>, <<"author", "name">>,
              <<"text">>, <<"createdAt">>, <<"likeCount">>, <<"retweetCount">>,
              <<"replyCount">> >>
      [] kind = "user" ->
           << <<"userName">>, <<"name">>, <<"followers">>, <<"following">> >>
      [] kind = "thread" ->
           << <<"author">>, <<"author", "userName">>, <<"text">>, <<"createdAt">> >>
      [] kind = "main" ->
           << <<"author">>, <<"author", "userName">>, <<"text">>, <<"createdAt">>,
              <<"likeCount">>, <<"retweetCount">>, <<"replyCount">> >>

\* the lines one pass of a rendering loop appends, every subscripted key present
ItemLines(kind, i, item) ==
    CASE kind = "recent" ->
           << <<ToString(i), ". ", item["text"]>>,
              <<"   Posted at: ", item["createdAt"]>>,
              LikesLine("   ", item["likeCount"], item["retweetCount"],
                        item["replyCount"]),
              BLANK >>
      [] kind = "page" ->
           << <<ToString(i), ". @", item["author"]["userName"], " (",
                item["author"]["name"], "): ", item["text"]>>,
              <<"   Posted at: ", item["createdAt"]>>,
              LikesLine("   ", item["likeCount"], item["retweetCount"],
                        item["replyCount"]),
              BLANK >>
      [] kind = "user" ->
           << <<ToString(i), ". @", item["userName"], " (", item["name"], ")">> >>
           \o (IF Get(item, "description", "") # ""
               THEN << <<"   Bio: ", item["description"]>> >> ELSE <<>>)
           \o << <<"   Followers: ", ToString(item["followers"]),
                   " | Following: ", ToString(item["following"])>>,
                 BLANK >>
      [] kind = "thread" ->
           << <<ToString(i), ". @", item["author"]["userName"], ": ", item["text"]>>,
              <<"   Posted at: ", item["createdAt"]>>,
              BLANK >>
      [] kind = "main" ->
           << <<"MAIN TWEET:">>,
              <<"@", item["author"]["userName"], ": ", item["text"]>>,
              <<"Posted at: ", item["createdAt"]>>,
              LikesLine("", item["likeCount"], item["retweetCount"],
                        item["replyCount"]),
              BLANK >>

\* "for i, item in enumerate(items, 1): formatted += ...": the lines of all the
\* items, or the KeyError of the first item that lacks a subscripted key
RenderLoop(kind, items) ==
    LET bad == {i \in 1..Len(items) : FirstMissing(items[i], ItemPaths(kind)) # None}
    IN  IF bad = {}
        THEN Lines(Flatten([i \in 1..Len(items) |-> ItemLines(kind, i, items[i])]))
        ELSE LET first == CHOOSE i \in bad : \A j \in bad : i <= j
             IN  KeyError(FirstMissing(items[first], ItemPaths(kind))[1])

\* "if result.get("has_next_page") and result.get("next_cursor"): formatted += ..."
PaginationHint(result) ==
    IF Get(result, "has_next_page", FALSE) /\ Get(result, "next_cursor", "") # ""
    THEN << BLANK, <<"More results available. Use cursor: ", result["next_cursor"]>> >>
    ELSE <<>>

\* two pieces of a try block in sequence: the first exception ends it
Then(r1, r2) ==
    IF r1.exc # None THEN r1
    ELSE IF r2.exc # None THEN r2
    ELSE Lines(r1.lines \o r2.lines)

\* f"<prefix>{str(e)}" of an except clause
ErrorString(prefix, e) == << <<prefix, e.msg>> >>

\* the end of a try block: the rendering, or the except clause's string
Finish(prefix, r) ==
    IF r.exc # None THEN ErrorString(prefix, r.exc[1]) ELSE r.lines

\* what the await of a tool leaves before "result.get(...)" is reached: the except
\* clause's string when the gateway raised or the body is no dict, else None
Caught(prefix, aw) ==
    IF aw.exc # None THEN Some(ErrorString(prefix, aw.exc[1]))
    ELSE IF ~aw.body.obj
    THEN Some(ErrorString(prefix, [type |-> "AttributeError",
                                   msg  |-> "object has no attribute 'get'"]))
    ELSE None

\* "if count > max: count = max" with the test turned around
Clamp_Raises(count, max) == IF count < max THEN max ELSE count

\* "if count > 50: count = 50"
Clamp(count, max) == IF count > max THEN max ELSE count

Request(r) == [exc |-> None, req |-> Some(r)]

DEFAULT_MAX_TWEETS == <<"1", "0", "0">>

get_tweet_request(c, e, args) == Request(ctx_get_tweet(c, args.tweet_id))

get_tweet_return(args, aw) ==
    LET prefix == "Error retrieving tweet: "
        caught == Caught(prefix, aw)
    IN  IF caught # None THEN caught[1]
        ELSE IF Get(aw.body.v, "tweets", <<>>) = <<>> THEN << <<"Tweet not found">> >>
        ELSE Finish(prefix, format_tweet(aw.body.v["tweets"][1]))

get_user_profile_request(c, e, args) == Request(ctx_get_user(c, args.username))

get_user_profile_return(args, aw) ==
    LET prefix == "Error retrieving user profile: "
        caught == Caught(prefix, aw)
    IN  IF caught # None THEN caught[1]
        ELSE IF Get(aw.body.v, "data", <<>>) = <<>>
        THEN << <<"User @", args.username, " not found">> >>
        ELSE Finish(prefix, format_user(aw.body.v["data"]))

\* lines 470-476: int() raises ValueError outside the try block
get_user_recent_tweets_request(c, e, args) ==
    LET max_tweets == PyInt(getenv(e, "MAX_TWEETS", DEFAULT_MAX_TWEETS))
    IN  IF max_tweets = None
        THEN [exc |-> Some([type |-> "ValueError",
                            msg  |-> "invalid literal for int() with base 10"]),
              req |-> None]
        ELSE Request(ctx_get_user_tweets(c, args.username,
                                         Clamp(args.count, max_tweets[1])))

get_user_recent_tweets_return(args, aw) ==
    LET prefix == "Error retrieving tweets: "
        caught == Caught(prefix, aw)
    IN  IF caught # None THEN caught[1]
        ELSE IF Get(aw.body.v, "tweets", <<>>) = <<>>
        THEN << <<"No tweets found for @", args.username>> >>
        ELSE LET r == RenderLoop("recent", aw.body.v["tweets"])
             IN  Finish(prefix,
                        Then(Lines(<< <<"Recent tweets by @", args.username, ":">>,
                                      BLANK >>), r))

\* "if query_type not in ["Latest", "Top"]" with "Top" left out of the list
CoerceQueryType_LatestOnly(query_type) == "Latest"

\* "if query_type not in ["Latest", "Top"]: query_type = "Latest""
CoerceQueryType(query_type) ==
    IF query_type \notin {"Latest", "Top"} THEN "Latest" ELSE query_type

\* the tools that render a page of tweets share lines 516-531: the sentinel, the
\* header, the loop and the pagination hint
PageReturn(prefix, sentinel, header, aw) ==
    LET caught == Caught(prefix, aw)
    IN  IF caught # None THEN caught[1]
        ELSE IF Get(aw.body.v, "tweets", <<>>) = <<>> THEN << sentinel >>
        ELSE Finish(prefix,
                    Then(Then(Lines(<< header, BLANK >>),
                              RenderLoop("page", aw.body.v["tweets"])),
                         Lines(PaginationHint(aw.body.v))))

\* the tools that render a list of users share lines 555-566
UsersReturn(prefix, sentinel, header, aw) ==
    LET caught == Caught(prefix, aw)
    IN  IF caught # None THEN caught[1]
        ELSE IF Get(aw.body.v, "users", <<>>) = <<>> THEN << sentinel >>
        ELSE Finish(prefix,
                    Then(Lines(<< header, BLANK >>),
                         RenderLoop("user", aw.body.v["users"])))

search_tweets_request(c, e, args) ==
    Request(ctx_search_tweets(c, args.query, CoerceQueryType(args.query_type),
                              Clamp(args.count, 50), ""))

search_tweets_return(args, aw) ==
    PageReturn("Error searching tweets: ",
               <<"No tweets found for query: ", args.query>>,
               <<"Search results for \"", args.query, "\" (",
                 CoerceQueryType(args.query_type), "):">>,
               aw)

get_user_followers_request(c, e, args) ==
    Request(ctx_get_user_followers(c, args.username, Clamp(args.count, 50)))

get_user_followers_return(args, aw) ==
    UsersReturn("Error retrieving followers: ",
                <<"No followers found for @", args.username>>,
                <<"Followers of @", args.username, ":">>,
                aw)

get_user_following_request(c, e, args) ==
    Request(ctx_get_user_following(c, args.username, Clamp(args.count, 50)))

get_user_following_return(args, aw) ==
    UsersReturn("Error retrieving following: ",
                <<"@", args.username, " is not following anyone">>,
                <<"Accounts @", args.username, " is following:">>,
                aw)

get_tweet_replies_request(c, e, args) ==
    Request(ctx_get_tweet_replies(c, args.tweet_id, Clamp(args.count, 50)))

get_tweet_replies_return(args, aw) ==
    PageReturn("Error retrieving replies: ",
               <<"No replies found for tweet ID: ", args.tweet_id>>,
               <<"Replies to tweet ", args.tweet_id, ":">>,
               aw)

get_user_mentions_request(c, e, args) ==
    Request(ctx_get_user_mentions(c, args.username, Clamp(args.count, 50),
                                  "", None, None))

get_user_mentions_return(args, aw) ==
    PageReturn("Error retrieving mentions: ",
               <<"No mentions found for @", args.username>>,
               <<"Tweets mentioning @", args.username, ":">>,
               aw)

get_tweet_quotations_request(c, e, args) ==
    Request(ctx_get_tweet_quotations(c, args.tweet_id, Clamp(args.count, 50)))

get_tweet_quotations_return(args, aw) ==
    PageReturn("Error retrieving quotes: ",
               <<"No quotes found for tweet ID: ", args.tweet_id>>,
               <<"Quotes of tweet ", args.tweet_id, ":">>,
               aw)

get_tweet_retweeters_request(c, e, args) ==
    Request(ctx_get_tweet_retweeters(c, args.tweet_id, Clamp(args.count, 50)))

get_tweet_retweeters_return(args, aw) ==
    UsersReturn("Error retrieving retweeters: ",
                <<"No retweeters found for tweet ID: ", args.tweet_id>>,
                <<"Users who retweeted tweet ", args.tweet_id, ":">>,
                aw)

get_tweet_thread_context_request(c, e, args) ==
    Request(ctx_get_tweet_thread_context(c, args.tweet_id))

get_tweet_thread_context_return(args, aw) ==
    LET prefix == "Error retrieving thread context: "
        caught == Caught(prefix, aw)
        result == aw.body.v
        before == Get(result, "before", <<>>)
        main   == Get(result, "main_tweet", <<>>)
        after  == Get(result, "after", <<>>)
    IN  IF caught # None THEN caught[1]
        ELSE IF before = <<>> /\ after = <<>>
        THEN << <<"No thread context found for tweet ID: ", args.tweet_id>> >>
        ELSE Finish(prefix,
                Then(Lines(<< <<"Thread context for tweet ", args.tweet_id, ":">>,
                              BLANK >>),
                Then(IF before # <<>>
                     THEN Then(Lines(<< <<"PARENT TWEETS:">> >>),
                               RenderLoop("thread", before))
                     ELSE Lines(<<>>),
                Then(IF main # <<>>
                     THEN IF FirstMissing(main, ItemPaths("main")) # None
                          THEN KeyError(FirstMissing(main, ItemPaths("main"))[1])
                          ELSE Lines(ItemLines("main", 1, main))
                     ELSE Lines(<<>>),
                     IF after # <<>>
                     THEN Then(Lines(<< <<"REPLIES:">> >>),
                               RenderLoop("thread", after))
                     ELSE Lines(<<>>)))))

get_list_tweets_request(c, e, args) ==
    Request(ctx_get_list_tweets(c, args.list_id, Clamp(args.count, 50)))

get_list_tweets_return(args, aw) ==
    PageReturn("Error retrieving list tweets: ",
               <<"No tweets found for list ID: ", args.list_id>>,
               <<"Tweets from ", Get(IF aw.exc = None /\ aw.body.obj
                                     THEN aw.body.v ELSE <<>>,
                                     "list_name", "Twitter List"),
                 " (ID: ", args.list_id, "):">>,
               aw)

get_trends_request(c, e, args) == Request(ctx_get_trends(c))

get_trends_return(args, aw) ==
    LET prefix == "Error retrieving trends: "
        caught == Caught(prefix, aw)
    IN  IF caught # None THEN caught[1]
        ELSE IF Get(aw.body.v, "trends", <<>>) = <<>>
        THEN << <<"No trending topics found">> >>
        ELSE Finish(prefix, format_trend(aw.body.v["trends"]))

\* str.strip() of a string given as its characters
RECURSIVE LStrip(_)
LStrip(cs) == IF cs # <<>> /\ Head(cs) = " " THEN LStrip(Tail(cs)) ELSE cs

RECURSIVE RStrip(_)
RStrip(cs) ==
    IF cs # <<>> /\ cs[Len(cs)] = " " THEN RStrip(SubSeq(cs, 1, Len(cs) - 1)) ELSE cs

Strip(cs) == RStrip(LStrip(cs))

\* str.split(","): the pieces between the commas, at least one piece
RECURSIVE Split(_, _)
Split(cs, piece) ==
    IF cs = <<>> THEN <<piece>>
    ELSE IF Head(cs) = "," THEN <<piece>> \o Split(Tail(cs), <<>>)
    ELSE Split(Tail(cs), Append(piece, Head(cs)))

batch_get_users_by_ids_request(c, e, args) ==
    LET pieces   == Split(args.user_ids, <<>>)
        ids_list == [i \in 1..Len(pieces) |-> Strip(pieces[i])]
    IN  Request(ctx_batch_get_users_by_ids(c, ids_list))

batch_user_block(i, user) ==
    << <<"--- User ", ToString(i), " ---">> >> \o format_user(user).lines
    \o << BLANK, BLANK >>

batch_get_users_by_ids_return(args, aw) ==
    LET prefix == "Error retrieving user profiles: "
        caught == Caught(prefix, aw)
    IN  IF caught # None THEN caught[1]
        ELSE IF Get(aw.body.v, "users", <<>>) = <<>>
        THEN << <<"No users found for the provided IDs">> >>
        ELSE << <<"Twitter User Profiles:">>, BLANK >>
             \o Flatten([i \in 1..Len(aw.body.v["users"]) |->
                            batch_user_block(i, aw.body.v["users"][i])])

\* the tools registered with @mcp.tool()
Tools ==
    {"get_tweet", "get_user_profile", "get_user_recent_tweets", "search_tweets",
     "get_user_followers", "get_user_following", "get_tweet_replies",
     "get_user_mentions", "get_tweet_quotations", "get_tweet_retweeters",
     "get_tweet_thread_context", "get_list_tweets", "get_trends",
     "batch_get_users_by_ids"}

\* the tools that take a count
CountTools ==
    {"get_user_recent_tweets", "search_tweets", "get_user_followers",
     "get_user_following", "get_tweet_replies", "get_user_mentions",
     "get_tweet_quotations", "get_tweet_retweeters", "get_list_tweets"}

\* the tools that render a page of tweets with a pagination hint
PageTools ==
    {"search_tweets", "get_tweet_replies", "get_user_mentions",
     "get_tweet_quotations", "get_list_tweets"}

\* a tool up to its await: the request it has the gateway issue, or the
\* exception it raises before
ToolRequest(tool, c, e, args) ==
    CASE tool = "get_tweet" -> get_tweet_request(c, e, args)
      [] tool = "get_user_profile" -> get_user_profile_request(c, e, args)
      [] tool = "get_user_recent_tweets" -> get_user_recent_tweets_request(c, e, args)
      [] tool = "search_tweets" -> search_tweets_request(c, e, args)
      [] tool = "get_user_followers" -> get_user_followers_request(c, e, args)
      [] tool = "get_user_following" -> get_user_following_request(c, e, args)
      [] tool = "get_tweet_replies" -> get_tweet_replies_request(c, e, args)
      [] tool = "get_user_mentions" -> get_user_mentions_request(c, e, args)
      [] tool = "get_tweet_quotations" -> get_tweet_quotations_request(c, e, args)
      [] tool = "get_tweet_retweeters" -> get_tweet_retweeters_request(c, e, args)
      [] tool = "get_tweet_thread_context" ->
           get_tweet_thread_context_request(c, e, args)
      [] tool = "get_list_tweets" -> get_list_tweets_request(c, e, args)
      [] tool = "get_trends" -> get_trends_request(c, e, args)
      [] tool = "batch_get_users_by_ids" -> batch_get_users_by_ids_request(c, e, args)

\* a tool from its await on: the string it returns
ToolReturn(tool, args, aw) ==
    CASE tool = "get_tweet" -> get_tweet_return(args, aw)
      [] tool = "get_user_profile" -> get_user_profile_return(args, aw)
      [] tool = "get_user_recent_tweets" -> get_user_recent_tweets_return(args, aw)
      [] tool = "search_tweets" -> search_tweets_return(args, aw)
      [] tool = "get_user_followers" -> get_user_followers_return(args, aw)
      [] tool = "get_user_following" -> get_user_following_return(args, aw)
      [] tool = "get_tweet_replies" -> get_tweet_replies_return(args, aw)
      [] tool = "get_user_mentions" -> get_user_mentions_return(args, aw)
      [] tool = "get_tweet_quotations" -> get_tweet_quotations_return(args, aw)
      [] tool = "get_tweet_retweeters" -> get_tweet_retweeters_return(args, aw)
      [] tool = "get_tweet_thread_context" -> get_tweet_thread_context_return(args, aw)
      [] tool = "get_list_tweets" -> get_list_tweets_return(args, aw)
      [] tool = "get_trends" -> get_trends_return(args, aw)
      [] tool = "batch_get_users_by_ids" -> batch_get_users_by_ids_return(args, aw)

\* ------------------------------------------------------------------ inputs

API_KEY == "secret-key"

\* TWITTER_API_KEY unset, empty or set; MAX_TWEETS unset, a number, a negative
\* number, or no number
Keys == {None, Some(""), Some(API_KEY)}

MaxTweetsSettings == {None, Some(<<"2", "0">>), Some(<<"-", "5">>), Some(<<"a", "b", "c">>),
                      Some(<<>>)}

Envs == {[TWITTER_API_KEY |-> k, MAX_TWEETS |-> m] : k \in Keys, m \in MaxTweetsSettings}

\* the count a caller may ask for: below, at and above each maximum (50, the
\* default 100 and the override 20), zero and a negative number
Counts ==
    {-1, 0, 10} \cup UNION {{m + k : k \in 0..MaxOver} : m \in {20, 50, 100}}
    \cup {9999}

QueryTypes == {"Latest", "Top", "top", "", "Bogus"}

\* no cursor, a cursor, and the cursor of FullBody
Cursors == {"", "cursor-1", "cursor-2"}

TimeBounds == {None, Some(0), Some(1700000000)}

\* user_ids of batch_get_users_by_ids, as characters: "1", "1,2", "1, 2", ""
UserIdStrings ==
    {<<"1">>, <<"1", ",", "2">>, <<"1", ",", " ", "2">>, <<>>}

\* the arguments of one invocation of a tool, the count among the given ones.
\* cursor is what the caller passes under that name to search_tweets and
\* get_user_mentions ("" when nothing is passed): the two tools declare no such
\* parameter (lines 493, 645), so their code never receives it
ArgsOf(tool, counts, query_types, ids, cursors) ==
    CASE tool \in {"get_tweet", "get_tweet_thread_context"} -> {[tweet_id |-> "1001"]}
      [] tool = "get_user_profile" -> {[username |-> "alice"]}
      [] tool \in {"get_user_recent_tweets", "get_user_followers",
                   "get_user_following"} ->
           {[username |-> "alice", count |-> n] : n \in counts}
      [] tool = "get_user_mentions" ->
           {[username |-> "alice", count |-> n, cursor |-> c] :
               n \in counts, c \in cursors}
      [] tool = "search_tweets" ->
           {[query |-> "tla", query_type |-> q, count |-> n, cursor |-> c] :
               q \in query_types, n \in counts, c \in cursors}
      [] tool \in {"get_tweet_replies", "get_tweet_quotations",
                   "get_tweet_retweeters"} ->
           {[tweet_id |-> "1001", count |-> n] : n \in counts}
      [] tool = "get_list_tweets" -> {[list_id |-> "77", count |-> n] : n \in counts}
      [] tool = "get_trends" -> {<<>>}
      [] tool = "batch_get_users_by_ids" -> {[user_ids |-> u] : u \in ids}

Author(i) == [userName |-> "user" \o ToString(i), name |-> "Name " \o ToString(i)]

\* the i-th tweet, every field of the data model present
Tweet(i) ==
    [text |-> "text " \o ToString(i), createdAt |-> "date " \o ToString(i),
     likeCount |-> i, retweetCount |-> 10 + i, replyCount |-> 20 + i,
     author |-> Author(i),
     entities |-> [hashtags |-> << [text |-> "tag" \o ToString(i)] >>]]

\* a tweet with one optional field left out, with an author lacking one of its
\* fields, and with no hashtags
PartialTweets ==
    {Restrict(Tweet(1), DOMAIN Tweet(1) \ {k}) : k \in DOMAIN Tweet(1)}
    \cup {[Tweet(1) EXCEPT !.author = Restrict(Author(1), {k})] :
             k \in {"userName", "name"}}
    \cup {[Tweet(1) EXCEPT !.author = <<>>],
          [Tweet(1) EXCEPT !.entities = <<>>],
          [Tweet(1) EXCEPT !.entities = [hashtags |-> <<>>]]}

RECURSIVE SeqsUpTo(_, _)
\* the sequences over S of length at most n
SeqsUpTo(S, n) ==
    IF n = 0 THEN {<<>>}
    ELSE LET shorter == SeqsUpTo(S, n - 1)
         IN  shorter \cup {Append(s, x) : s \in shorter, x \in S}

\* the tweet collections: the full tweets in every order and number up to
\* MaxLen, and a partial tweet alone, first or last
TweetLists ==
    SeqsUpTo({Tweet(i) : i \in 1..MaxLen}, MaxLen)
    \cup {<<t>> : t \in PartialTweets}
    \cup {<<Tweet(2), t>> : t \in PartialTweets}
    \cup {<<t, Tweet(2)>> : t \in PartialTweets}

User(i) ==
    [userName |-> "user" \o ToString(i), name |-> "Name " \o ToString(i),
     description |-> "bio " \o ToString(i), location |-> "city " \o ToString(i),
     followers |-> 100 * i, following |-> 5 * i, statusesCount |-> 7 * i,
     mediaCount |-> i, createdAt |-> "date " \o ToString(i),
     isBlueVerified |-> TRUE]

PartialUsers ==
    {Restrict(User(1), DOMAIN User(1) \ {k}) : k \in DOMAIN User(1)}
    \cup {[User(1) EXCEPT !.description = ""], [User(1) EXCEPT !.location = ""],
          [User(1) EXCEPT !.isBlueVerified = FALSE]}

UserLists ==
    SeqsUpTo({User(i) : i \in 1..MaxLen}, MaxLen)
    \cup {<<u>> : u \in PartialUsers}
    \cup {<<User(2), u>> : u \in PartialUsers}

Trend(i) ==
    [name |-> "trend " \o ToString(i), tweet_volume |-> 1234567 * i,
     description |-> "about " \o ToString(i)]

PartialTrends ==
    {Restrict(Trend(1), DOMAIN Trend(1) \ {k}) : k \in DOMAIN Trend(1)}
    \cup {[Trend(1) EXCEPT !.tweet_volume = 0], [Trend(1) EXCEPT !.tweet_volume = 999],
          [Trend(1) EXCEPT !.tweet_volume = 1002003]}

TrendLists ==
    SeqsUpTo({Trend(i) : i \in 1..MaxLen}, MaxLen) \cup {<<t>> : t \in PartialTrends}

\* the dicts with some of the keys, the value of key k among vals[k]
RECURSIVE Dicts(_, _)
Dicts(keys, vals) ==
    IF keys = {} THEN {<<>>}
    ELSE LET k    == CHOOSE x \in keys : TRUE
             rest == Dicts(keys \ {k}, vals)
         IN  rest \cup {(k :> v) @@ d : v \in vals[k], d \in rest}

PageBodies ==
    Dicts({"tweets", "has_next_page", "next_cursor"},
          [tweets |-> TweetLists, has_next_page |-> BOOLEAN,
           next_cursor |-> {"", "cursor-2"}])

\* before and after of a thread context: fewer collections than TweetLists, the
\* response holding two of them
ThreadLists ==
    SeqsUpTo({Tweet(i) : i \in 1..MaxLen}, MaxLen)
    \cup {<<Restrict(Tweet(1), DOMAIN Tweet(1) \ {k})>> : k \in {"author", "text"}}

\* the JSON objects a 2xx response to a tool's request may hold, over the keys
\* the tool reads
Bodies(tool) ==
    CASE tool \in {"get_tweet", "get_user_recent_tweets"} ->
           Dicts({"tweets"}, [tweets |-> TweetLists \cup {<< <<>> >>}])
      [] tool = "get_user_profile" ->
           Dicts({"data"}, [data |-> {<<>>, User(1)} \cup PartialUsers])
      [] tool \in PageTools \ {"get_list_tweets"} -> PageBodies
      [] tool = "get_list_tweets" ->
           PageBodies \cup {("list_name" :> "My List") @@ b : b \in PageBodies}
      [] tool \in {"get_user_followers", "get_user_following",
                   "get_tweet_retweeters"} ->
           Dicts({"users"}, [users |-> UserLists])
      [] tool = "batch_get_users_by_ids" ->
           Dicts({"users"}, [users |-> UserLists \cup {<< <<>> >>}])
      [] tool = "get_tweet_thread_context" ->
           Dicts({"before", "main_tweet", "after"},
                 [before |-> ThreadLists, after |-> ThreadLists,
                  main_tweet |-> {<<>>, Tweet(1),
                                  Restrict(Tweet(1), DOMAIN Tweet(1) \ {"author"})}])
      [] tool = "get_trends" -> Dicts({"trends"}, [trends |-> TrendLists])

\* a body with one full item in every collection, a next page and a cursor
FullBody ==
    [tweets |-> <<Tweet(1)>>, users |-> <<User(1)>>, data |-> User(1),
     trends |-> <<Trend(1)>>, before |-> <<Tweet(2)>>, main_tweet |-> Tweet(1),
     after |-> <<Tweet(2)>>, has_next_page |-> TRUE, next_cursor |-> "cursor-2"]

Ok(body) == [kind |-> "ok", status |-> 200, body |-> [obj |-> TRUE, v |-> body]]

\* a 2xx response whose JSON is not an object (a list, null)
OkNoObject == [kind |-> "ok", status |-> 200, body |-> [obj |-> FALSE, v |-> <<>>]]

NotJson == [kind |-> "notjson", status |-> 200, body |-> [obj |-> FALSE, v |-> <<>>]]

Status(n) == [kind |-> "status", status |-> n, body |-> [obj |-> FALSE, v |-> <<>>]]

Transport == [kind |-> "transport", status |-> 0, body |-> [obj |-> FALSE, v |-> <<>>]]

Failures == {Status(500), Status(404), Transport}

\* every outcome of a tool's request
Outcomes(tool) == Failures \cup {NotJson, OkNoObject} \cup {Ok(b) : b \in Bodies(tool)}

\* a few outcomes of any request: a failure of each kind and a full body
FewOutcomes == {Status(500), Transport, Ok(FullBody)}

\* ------------------------------------------------------------- the server

Idle ==
    [pc |-> "idle", tool |-> "", args |-> <<>>, requests |-> <<>>,
     resp |-> <<>>, out |-> <<>>, exc |-> None]

NoDirect == [pc |-> "idle", op |-> "", args |-> <<>>, requests |-> <<>>, exc |-> None]

NoFmt == [fn |-> "", arg |-> <<>>, res |-> Lines(<<>>)]

NoSelfTest == [requests |-> <<>>, resp |-> None]

\* "if not api_key" with only the unset key tested
KeyMissing_NoneOnly(api_key) == api_key = None

\* lines 371-372: "if not api_key"
KeyMissing(api_key) == api_key = None \/ api_key[1] = ""

\* "except Exception as e: ... raise ValueError(...)" left out
AfterSelfTest_Swallow(aw) == "serving"

\* lines 383-395: the connection test raises, and the lifespan with it, or the
\* context is yielded
AfterSelfTest(aw) == IF aw.exc # None THEN "aborted" ELSE "serving"

\* twitter_lifespan up to its first await (lines 371-385)
Startup ==
    /\ pc = "start"
    /\ IF KeyMissing(env.TWITTER_API_KEY)
       THEN /\ pc' = "config_error"
            /\ UNCHANGED <<client, created, selftest>>
       ELSE /\ pc' = "selftest"
            /\ client' = "open"
            /\ created' = created + 1
            /\ selftest' =
                 [selftest EXCEPT !.requests =
                     Append(@, ctx_get_user(TwitterAPIContext(env.TWITTER_API_KEY[1],
                                                              created'),
                                            "twitterapi"))]
    /\ UNCHANGED <<env, ctx, calls, direct, fmt>>

\* the lifespan yielding a context with a client of its own instead of the
\* client the connection test used
SelfTestResponse_SecondClient(outcome) ==
    /\ pc = "selftest"
    /\ pc' = AfterSelfTest(Await(outcome))
    /\ selftest' = [selftest EXCEPT !.resp = Some(outcome)]
    /\ IF pc' = "serving"
       THEN /\ created' = created + 1
            /\ ctx' = Some(TwitterAPIContext(env.TWITTER_API_KEY[1], created'))
            /\ UNCHANGED client
       ELSE /\ client' = "closed"
            /\ UNCHANGED <<created, ctx>>
    /\ UNCHANGED <<env, calls, direct, fmt>>

\* twitter_lifespan from the connection test's response to the yield
\* (lines 385-395), or to leaving "async with" on the ValueError
SelfTestResponse(outcome) ==
    /\ pc = "selftest"
    /\ pc' = AfterSelfTest(Await(outcome))
    /\ selftest' = [selftest EXCEPT !.resp = Some(outcome)]
    /\ IF pc' = "serving"
       THEN /\ ctx' = Some(TwitterAPIContext(env.TWITTER_API_KEY[1], created))
            /\ UNCHANGED client
       ELSE /\ client' = "closed"
            /\ UNCHANGED ctx
    /\ UNCHANGED <<env, created, calls, direct, fmt>>

Busy(s) == calls[s].pc = "awaiting"

\* a tool is invoked: its code up to the await. The invocation takes the lowest
\* of the given slots that holds no invocation in flight
Invoke(slots, tool, args) ==
    /\ pc = "serving"
    /\ \E s \in slots :
         /\ ~Busy(s)
         /\ \A t \in slots : t < s => Busy(t)
         /\ LET r == ToolRequest(tool, ctx[1], env, args)
            IN  calls' = [calls EXCEPT ![s] =
                    [pc |-> IF r.exc # None THEN "raised" ELSE "awaiting",
                     tool |-> tool, args |-> args, requests |-> r.req,
                     resp |-> <<>>, out |-> <<>>, exc |-> r.exc]]
    /\ UNCHANGED <<env, pc, client, created, ctx, selftest, direct, fmt>>

\* the invocation after a response that retries a failed request once
AfterResponse_Retry(call, outcome) ==
    IF Await(outcome).exc # None /\ Len(call.requests) < 2
    THEN [call EXCEPT !.requests = Append(@, call.requests[1])]
    ELSE [call EXCEPT !.pc = "returned", !.resp = Some(outcome),
                      !.out = ToolReturn(call.tool, call.args, Await(outcome))]

\* the invocation after a response, with a result cache shared by the
\* invocations: the string another invocation of the same tool has returned is
\* returned again
AfterResponse_Cached(call, outcome) ==
    LET same == {t \in DOMAIN calls :
                    calls[t].pc = "returned" /\ calls[t].tool = call.tool}
    IN  [call EXCEPT !.pc = "returned", !.resp = Some(outcome),
                     !.out = IF same # {}
                             THEN calls[CHOOSE t \in same : TRUE].out
                             ELSE ToolReturn(call.tool, call.args, Await(outcome))]

\* the invocation after the upstream's response: the tool's code from its await
\* to its return
AfterResponse(call, outcome) ==
    [call EXCEPT !.pc = "returned", !.resp = Some(outcome),
                 !.out = ToolReturn(call.tool, call.args, Await(outcome))]

\* a failed request taking the server down with it: the exception leaves the
\* tool, the lifespan exits and closes the client
Respond_FailureStops(s, outcome) ==
    /\ Busy(s)
    /\ calls' = [calls EXCEPT ![s] = AfterResponse(calls[s], outcome)]
    /\ IF Await(outcome).exc # None
       THEN pc' = "shutdown" /\ client' = "closed"
       ELSE UNCHANGED <<pc, client>>
    /\ UNCHANGED <<env, created, ctx, selftest, direct, fmt>>

\* the upstream answers the request of the invocation in slot s, or fails to
Respond(s, outcome) ==
    /\ Busy(s)
    /\ calls' = [calls EXCEPT ![s] = AfterResponse(calls[s], outcome)]
    /\ UNCHANGED <<env, pc, client, created, ctx, selftest, direct, fmt>>

\* the server stops: the lifespan leaves "async with", the client is closed, the
\* invocations in flight are cancelled
Shutdown ==
    /\ pc = "serving"
    /\ pc' = "shutdown"
    /\ client' = "closed"
    /\ calls' = [s \in DOMAIN calls |->
                    IF Busy(s) THEN [calls[s] EXCEPT !.pc = "cancelled"] ELSE calls[s]]
    /\ UNCHANGED <<env, created, ctx, selftest, direct, fmt>>

\* the gateway operations that take optional parameters, called on the context
DirectOps == {"get_user_mentions", "search_tweets"}

DirectArgs(op) ==
    IF op = "get_user_mentions"
    THEN {[username |-> "alice", count |-> 20, cursor |-> c, since_time |-> a,
           until_time |-> b] : c \in Cursors, a \in TimeBounds, b \in TimeBounds}
    ELSE {[query |-> "tla", query_type |-> q, count |-> 10, cursor |-> c] :
             q \in {"Latest", "Top"}, c \in Cursors}

DirectRequest(op, c, args) ==
    IF op = "get_user_mentions"
    THEN ctx_get_user_mentions(c, args.username, args.count, args.cursor,
                               args.since_time, args.until_time)
    ELSE ctx_search_tweets(c, args.query, args.query_type, args.count, args.cursor)

DirectCall(op, args) ==
    /\ pc = "serving"
    /\ direct.pc # "awaiting"
    /\ direct' = [pc |-> "awaiting", op |-> op, args |-> args,
                  requests |-> <<DirectRequest(op, ctx[1], args)>>, exc |-> None]
    /\ UNCHANGED <<env, pc, client, created, ctx, selftest, calls, fmt>>

\* the gateway operation returns the body or raises
DirectResponse(outcome) ==
    /\ direct.pc = "awaiting"
    /\ direct' = [direct EXCEPT
                    !.pc = IF Await(outcome).exc # None THEN "raised" ELSE "returned",
                    !.exc = Await(outcome).exc]
    /\ UNCHANGED <<env, pc, client, created, ctx, selftest, calls, fmt>>

Formatters == {"format_tweet", "format_tweet_list", "format_user", "format_trend"}

\* the values a formatter is applied to; <<>> is None, {} and []
FormatterInputs(fn) ==
    CASE fn = "format_tweet" ->
           {Restrict(Tweet(1), S) : S \in SUBSET DOMAIN Tweet(1)}
           \cup {Tweet(i) : i \in 1..MaxLen} \cup PartialTweets
      [] fn = "format_tweet_list" -> TweetLists
      [] fn = "format_user" ->
           {Restrict(User(1), S) : S \in SUBSET DOMAIN User(1)}
           \cup {User(i) : i \in 1..MaxLen} \cup PartialUsers
      [] fn = "format_trend" -> TrendLists

Format(fn, v) ==
    CASE fn = "format_tweet" -> format_tweet(v)
      [] fn = "format_tweet_list" -> format_tweet_list(v)
      [] fn = "format_user" -> format_user(v)
      [] fn = "format_trend" -> format_trend(v)

\* one application in a behaviour: the formatters keep no state between calls
ApplyFormatter(fn, v) ==
    /\ fmt = NoFmt
    /\ fmt' = [fn |-> fn, arg |-> v, res |-> Format(fn, v)]
    /\ UNCHANGED <<env, pc, client, created, ctx, selftest, calls, direct>>

\* ------------------------------------------------------- specifications

Slots == 1..MaxCalls

\* the process before twitter_lifespan runs, MAX_TWEETS unset
Init ==
    /\ env \in {e \in Envs : e.MAX_TWEETS = None}
    /\ pc = "start"
    /\ client = "none"
    /\ created = 0
    /\ ctx = None
    /\ selftest = NoSelfTest
    /\ calls = [s \in Slots |-> Idle]
    /\ direct = NoDirect
    /\ fmt = NoFmt

\* the outcomes of the connection test: the failures and one success (the test
\* reads nothing of the body)
SelfTestOutcomes == FewOutcomes \cup {Status(404), NotJson}

StartupResponds == \E o \in SelfTestOutcomes : SelfTestResponse(o)

ToolInvoked ==
    \E tool \in Tools :
        \E args \in ArgsOf(tool, {10}, {"Latest"}, {<<"1", ",", " ", "2">>}, {""}) :
            Invoke(Slots, tool, args)

UpstreamResponds == \E s \in Slots : \E o \in FewOutcomes : Respond(s, o)

\* the server from start to stop, with invocations in flight together
Next ==
    \/ Startup
    \/ StartupResponds
    \/ ToolInvoked
    \/ UpstreamResponds
    \/ Shutdown

Spec == Init /\ [][Next]_vars

\* the server once the lifespan has yielded the context, under any environment
\* whose key is set
InitServing ==
    /\ env \in {e \in Envs : ~KeyMissing(e.TWITTER_API_KEY)}
    /\ pc = "serving"
    /\ client = "open"
    /\ created = 1
    /\ ctx = Some(TwitterAPIContext(env.TWITTER_API_KEY[1], 1))
    /\ selftest = [requests |-> <<ctx_get_user(TwitterAPIContext(env.TWITTER_API_KEY[1], 1),
                                                 "twitterapi")>>,
                   resp |-> Some(Ok(FullBody))]
    /\ calls = [s \in Slots |-> Idle]
    /\ direct = NoDirect
    /\ fmt = NoFmt

AnyToolInvoked ==
    \E tool \in Tools : \E args \in ArgsOf(tool, Counts, QueryTypes, UserIdStrings, Cursors) :
        Invoke({1}, tool, args)

FewRespond == \E o \in FewOutcomes : Respond(1, o)

GatewayCalled == \E op \in DirectOps : \E args \in DirectArgs(op) : DirectCall(op, args)

GatewayResponds == \E o \in {Status(500), Ok(FullBody)} : DirectResponse(o)

\* one invocation at a time, over every argument and environment: the requests
NextReq ==
    \/ AnyToolInvoked
    \/ FewRespond

ReqSpec == InitServing /\ [][NextReq]_vars

\* the gateway operations with optional parameters, over every argument
NextGateway ==
    \/ GatewayCalled
    \/ GatewayResponds

GatewaySpec == InitServing /\ [][NextGateway]_vars

InitFmt == InitServing /\ env.MAX_TWEETS = None

OneToolInvoked ==
    /\ fmt = NoFmt
    /\ \E tool \in Tools :
         \E args \in ArgsOf(tool, {10}, {"Latest"}, {<<"1", ",", " ", "2">>}, {""}) :
            Invoke({1}, tool, args)

AnyResponse == Busy(1) /\ \E o \in Outcomes(calls[1].tool) : Respond(1, o)

FormatterApplied ==
    /\ calls[1].pc = "idle"
    /\ \E fn \in Formatters : \E v \in FormatterInputs(fn) : ApplyFormatter(fn, v)

\* the renderings: either tools are invoked, one at a time, and answered with
\* every response, or a formatter of utils.py is applied to a value
NextFmt ==
    \/ OneToolInvoked
    \/ AnyResponse
    \/ FormatterApplied

FmtSpec == InitFmt /\ [][NextFmt]_vars

\* ------------------------------------------------------------- properties

ErrorPrefixes ==
    {"Error retrieving tweet: ", "Error retrieving user profile: ",
     "Error retrieving tweets: ", "Error searching tweets: ",
     "Error retrieving followers: ", "Error retrieving following: ",
     "Error retrieving replies: ", "Error retrieving mentions: ",
     "Error retrieving quotes: ", "Error retrieving retweeters: ",
     "Error retrieving thread context: ", "Error retrieving list tweets: ",
     "Error retrieving trends: ", "Error retrieving user profiles: "}

\* the string is one "Error <doing X>: <message>" line
IsError(out) == Len(out) = 1 /\ Len(out[1]) = 2 /\ out[1][1] \in ErrorPrefixes

HasHint(out) ==
    \E i \in 1..Len(out) :
        out[i] # <<>> /\ out[i][1] = "More results available. Use cursor: "

Params(call) == call.requests[1].params

\* C1: every invocation of every tool, whatever the arguments, the environment
\* (MAX_TWEETS included) and the upstream's outcome, ends by returning a string:
\* none ends by raising an exception out of the tool.
C1_NoToolRaises == \A s \in Slots : calls[s].pc # "raised"

\* the maximum C2 names for a tool: 100, or the MAX_TWEETS override, for
\* get_user_recent_tweets, 50 for the others; None when the override is no number
MaxCount(tool) ==
    IF tool # "get_user_recent_tweets" THEN Some(50)
    ELSE IF env.MAX_TWEETS = None THEN Some(100)
    ELSE PyInt(env.MAX_TWEETS[1])

\* C2: a count-bearing tool sends upstream min(requested count, max), max being
\* 100 (or the MAX_TWEETS override) for get_user_recent_tweets and 50 for the
\* others; a request with count = max + k has the parameters of the request
\* with count = max, and no invocation is refused for being over the maximum.
C2_CountClamped ==
    \A s \in Slots :
        (calls[s].tool \in CountTools /\ MaxCount(calls[s].tool) # None) =>
            LET call == calls[s]
                max  == MaxCount(call.tool)[1]
            IN  /\ call.pc # "raised"
                /\ Len(call.requests) = 1
                /\ Has(Params(call), "count")
                /\ Params(call)["count"] = Min(call.args.count, max)
                /\ call.args.count >= max =>
                     Params(call) =
                       ToolRequest(call.tool, ctx[1], env,
                                   [call.args EXCEPT !.count = max]).req[1].params

\* C2's case: 9999 recent tweets asked for, MAX_TWEETS unset, 100 sent
C2_Witness ==
    \E s \in Slots :
        /\ calls[s].tool = "get_user_recent_tweets"
        /\ env.MAX_TWEETS = None
        /\ calls[s].args.count = 9999
        /\ calls[s].requests # <<>>
        /\ Params(calls[s])["count"] = 100

\* C3: search_tweets sends queryType "Top" exactly when the query_type given is
\* "Top", and "Latest" for every other value; the request is built with the
\* coerced value.
C3_QueryTypeCoerced ==
    \A s \in Slots :
        (calls[s].tool = "search_tweets" /\ calls[s].requests # <<>>) =>
            /\ Has(Params(calls[s]), "queryType")
            /\ Params(calls[s])["queryType"] = "Top" <=> calls[s].args.query_type = "Top"
            /\ calls[s].args.query_type # "Top" =>
                 Params(calls[s])["queryType"] = "Latest"

\* C3's case: "Bogus" asked for, "Latest" sent
C3_Witness ==
    \E s \in Slots :
        /\ calls[s].tool = "search_tweets"
        /\ calls[s].args.query_type = "Bogus"
        /\ calls[s].requests # <<>>
        /\ Params(calls[s])["queryType"] = "Latest"

\* the parameters whose value is a string
StringParams ==
    {"tweet_ids", "userName", "tweetId", "listId", "query", "queryType", "cursor"}

\* the request carries the key in its x-api-key header and in no parameter
KeyInHeaderOnly(r) ==
    /\ Has(r.headers, "x-api-key")
    /\ r.headers["x-api-key"] = env.TWITTER_API_KEY[1]
    /\ \A k \in DOMAIN r.params :
         /\ k \notin {"x-api-key", "api_key", "apikey", "key"}
         /\ k \in StringParams => r.params[k] # env.TWITTER_API_KEY[1]

\* C4: every request of every gateway operation, the startup self-test included,
\* carries the API key in the x-api-key header, and none carries it among the
\* query parameters (no argument of a caller being the key itself).
C4_KeyInHeaderOnly ==
    /\ \A i \in 1..Len(selftest.requests) : KeyInHeaderOnly(selftest.requests[i])
    /\ \A s \in Slots : \A i \in 1..Len(calls[s].requests) :
           KeyInHeaderOnly(calls[s].requests[i])

\* C4's case: the self-test and a tool with parameters have issued a request
C4_Witness ==
    /\ selftest.requests # <<>>
    /\ \E s \in Slots :
         /\ calls[s].tool = "search_tweets"
         /\ calls[s].requests # <<>>
         /\ calls[s].requests[1].headers = ("x-api-key" :> API_KEY)

\* C5: the gateway operations get_user_mentions and search_tweets send cursor,
\* sinceTime and untilTime exactly when the caller supplied a value (a cursor
\* that is not empty, a time bound that is not None), and send it unchanged.
C5_OptionalParamsIffSupplied ==
    direct.requests # <<>> =>
        LET p == direct.requests[1].params
            a == direct.args
        IN  /\ Has(p, "cursor") <=> a.cursor # ""
            /\ Has(p, "cursor") => p["cursor"] = a.cursor
            /\ direct.op = "get_user_mentions" =>
                 /\ Has(p, "sinceTime") <=> a.since_time # None
                 /\ Has(p, "sinceTime") => p["sinceTime"] = a.since_time[1]
                 /\ Has(p, "untilTime") <=> a.until_time # None
                 /\ Has(p, "untilTime") => p["untilTime"] = a.until_time[1]

Failed(outcome) == Await(outcome).exc # None

\* C6: an invocation issues at most one request; when the request meets a
\* non-2xx status or a transport failure the operation fails for that call, and
\* no second request follows.
C6_NoRetry ==
    \A s \in Slots :
        /\ Len(calls[s].requests) <= 1
        /\ (calls[s].resp # None /\ Failed(calls[s].resp[1])) =>
             /\ calls[s].pc = "returned"
             /\ Len(calls[s].requests) = 1
             /\ IsError(calls[s].out)

\* C6's case: an invocation answered with HTTP 500 and one with no answer
C6_Witness ==
    \E s, t \in Slots :
        /\ calls[s].resp = Some(Status(500))
        /\ calls[t].resp = Some(Transport)
        /\ Len(calls[s].requests) = 1

Served == \E s \in Slots : calls[s].pc # "idle"

\* C7: startup issues exactly one self-test request, get_user for "twitterapi";
\* it is answered before any tool is served; when it fails startup aborts:
\* the context is never yielded, no tool is served and the test is not retried.
C7_SelfTestOnce ==
    /\ Len(selftest.requests) <= 1
    /\ pc \in {"selftest", "serving", "aborted", "shutdown"} =>
         /\ Len(selftest.requests) = 1
         /\ selftest.requests[1].url = "https://api.twitterapi.io/twitter/user/info"
         /\ selftest.requests[1].params = ("userName" :> "twitterapi")
    /\ (Served \/ ctx # None) =>
         /\ pc \in {"serving", "shutdown"}
         /\ selftest.resp # None
         /\ ~Failed(selftest.resp[1])
    /\ (selftest.resp # None /\ Failed(selftest.resp[1])) =>
         /\ pc = "aborted"
         /\ ctx = None
         /\ ~Served

\* C7's case: the self-test was answered with HTTP 500
C7_Witness ==
    /\ selftest.resp = Some(Status(500))
    /\ pc = "aborted"
    /\ Len(selftest.requests) = 1

\* C8: with TWITTER_API_KEY unset or empty the lifespan fails with a
\* configuration error before the client is created and before any request, the
\* self-test included, is issued, and no tool is ever served.
C8_NoKeyNoStart ==
    env.TWITTER_API_KEY \in {None, Some("")} =>
        /\ pc \in {"start", "config_error"}
        /\ client = "none"
        /\ selftest = NoSelfTest
        /\ ctx = None
        /\ ~Served

\* C8's case: the key is set to the empty string and startup has failed
C8_Witness == env.TWITTER_API_KEY = Some("") /\ pc = "config_error"

\* the call has returned the rendering of a 2xx response holding a JSON object
Rendered(call) ==
    call.pc = "returned" /\ call.resp[1].kind = "ok" /\ call.resp[1].body.obj

Body(call) == call.resp[1].body.v

\* C9: a tool that renders a page of tweets, given a non-empty collection, ends
\* its output with the pagination hint exactly when has_next_page is true and
\* next_cursor is a non-empty string.
C9_HintIffNextPage ==
    \A s \in Slots :
        (/\ calls[s].tool \in PageTools
         /\ Rendered(calls[s])
         /\ Get(Body(calls[s]), "tweets", <<>>) # <<>>) =>
            (HasHint(calls[s].out) <=>
                /\ Get(Body(calls[s]), "has_next_page", FALSE)
                /\ Get(Body(calls[s]), "next_cursor", "") # "")

\* the sentinel of a formatter
FormatterSentinel(fn) ==
    CASE fn = "format_tweet" -> "Tweet not available"
      [] fn = "format_tweet_list" -> "No tweets available"
      [] fn = "format_user" -> "User not available"
      [] fn = "format_trend" -> "No trending topics available"

\* the sentinel of a tool
ToolSentinel(tool, args) ==
    CASE tool = "get_tweet" -> <<"Tweet not found">>
      [] tool = "get_user_profile" -> <<"User @", args.username, " not found">>
      [] tool = "get_user_recent_tweets" -> <<"No tweets found for @", args.username>>
      [] tool = "search_tweets" -> <<"No tweets found for query: ", args.query>>
      [] tool = "get_user_followers" -> <<"No followers found for @", args.username>>
      [] tool = "get_user_following" -> <<"@", args.username, " is not following anyone">>
      [] tool = "get_tweet_replies" -> <<"No replies found for tweet ID: ", args.tweet_id>>
      [] tool = "get_user_mentions" -> <<"No mentions found for @", args.username>>
      [] tool = "get_tweet_quotations" -> <<"No quotes found for tweet ID: ", args.tweet_id>>
      [] tool = "get_tweet_retweeters" ->
           <<"No retweeters found for tweet ID: ", args.tweet_id>>
      [] tool = "get_tweet_thread_context" ->
           <<"No thread context found for tweet ID: ", args.tweet_id>>
      [] tool = "get_list_tweets" -> <<"No tweets found for list ID: ", args.list_id>>
      [] tool = "get_trends" -> <<"No trending topics found">>
      [] tool = "batch_get_users_by_ids" -> <<"No users found for the provided IDs">>

\* the top-level collection of the tool's response is empty or absent
EmptyCollection(tool, body) ==
    CASE tool \in {"get_tweet", "get_user_recent_tweets"} \cup PageTools ->
           Get(body, "tweets", <<>>) = <<>>
      [] tool = "get_user_profile" -> Get(body, "data", <<>>) = <<>>
      [] tool \in {"get_user_followers", "get_user_following", "get_tweet_retweeters",
                   "batch_get_users_by_ids"} ->
           Get(body, "users", <<>>) = <<>>
      [] tool = "get_tweet_thread_context" ->
           Get(body, "before", <<>>) = <<>> /\ Get(body, "after", <<>>) = <<>>
      [] tool = "get_trends" -> Get(body, "trends", <<>>) = <<>>

\* C10: given an empty or absent top-level collection (in a response that is a
\* JSON object, for a tool), each formatter and each tool returns exactly its
\* sentinel: one line, not empty, no "Error ..." string, no item rendered.
C10_SentinelOnEmpty ==
    /\ (fmt.fn # "" /\ fmt.arg = <<>>) =>
         fmt.res = Lines(<< <<FormatterSentinel(fmt.fn)>> >>)
    /\ \A s \in Slots :
         (Rendered(calls[s]) /\ EmptyCollection(calls[s].tool, Body(calls[s]))) =>
            /\ calls[s].out = << ToolSentinel(calls[s].tool, calls[s].args) >>
            /\ calls[s].out # <<>>
            /\ ~IsError(calls[s].out)

\* C10's case: format_tweet_list applied to no tweets
C10_Witness ==
    /\ fmt.fn = "format_tweet_list"
    /\ fmt.arg = <<>>
    /\ fmt.res.lines = << <<"No tweets available">> >>

\* the tokens of the lines of a rendering, one after another
Tokens(out) == Flatten(out)

\* the item lacks the field, or the author that would hold it
Lacks(item, path) == ~PathPresent(item, path)

\* C11: a tweet or user lacking any of its optional fields is rendered, by the
\* formatters and by the tools alike, with the default token ("unknown",
\* "Unknown", 0) in place of the missing field, and the rendering never fails:
\* no formatter raises and no tool answers a response holding such an item with
\* an "Error ..." string.
C11_DefaultsForMissingFields ==
    /\ (fmt.fn \in {"format_tweet", "format_user"} /\ fmt.arg # <<>>) =>
         /\ fmt.res.exc = None
         /\ LET head == fmt.res.lines[1]
                path == IF fmt.fn = "format_tweet" THEN <<"author">> ELSE <<>>
            IN  /\ Lacks(fmt.arg, path \o <<"userName">>) => head[2] = "unknown"
                /\ Lacks(fmt.arg, path \o <<"name">>) => head[4] = "Unknown"
         /\ (fmt.fn = "format_tweet" /\ Lacks(fmt.arg, <<"likeCount">>)) =>
              fmt.res.lines[6][2] = "0"
    /\ \A s \in Slots :
         (Rendered(calls[s]) /\ ~EmptyCollection(calls[s].tool, Body(calls[s]))) =>
            /\ ~IsError(calls[s].out)
            /\ (/\ calls[s].tool \in PageTools
                /\ Lacks(Body(calls[s])["tweets"][1], <<"author", "name">>)) =>
                 "Unknown" \in {Tokens(calls[s].out)[i] :
                                  i \in 1..Len(Tokens(calls[s].out))}

\* the numerals that number the entries of a rendering
Numerals == {ToString(i) : i \in 1..(MaxLen + 1)}

\* the number a line starts its entry with: "<i>. ..." or "--- User <i> ---"
Label(line) ==
    IF line = <<>> THEN ""
    ELSE IF line[1] = "--- User " THEN line[2]
    ELSE line[1]

\* the positions of the lines of a rendering that start a numbered entry
EntryStarts(out) ==
    SelectSeq([i \in 1..Len(out) |-> i], LAMBDA i : Label(out[i]) \in Numerals)

\* the tokens of the k-th numbered entry: from its first line to the next entry
EntryTokens(out, k) ==
    LET starts == EntryStarts(out)
        last   == IF k < Len(starts) THEN starts[k + 1] - 1 ELSE Len(out)
        tokens == Tokens(SubSeq(out, starts[k], last))
    IN  {tokens[j] : j \in 1..Len(tokens)}

\* what tells one item from another: the text of a tweet, the name of a user or
\* of a trend
KeyOf(item) ==
    IF Has(item, "text") THEN Some(item["text"])
    ELSE IF Has(item, "userName") THEN Some(item["userName"])
    ELSE IF Has(item, "name") THEN Some(item["name"])
    ELSE None

\* the rendering numbers the items of each collection 1..N, in the order of the
\* collection, one entry for each item
Enumerates(out, collections) ==
    LET items  == Flatten(collections)
        labels == Flatten([c \in 1..Len(collections) |->
                              [i \in 1..Len(collections[c]) |-> ToString(i)]])
        starts == EntryStarts(out)
    IN  /\ Len(starts) = Len(items)
        /\ \A k \in 1..Len(starts) :
             /\ Label(out[starts[k]]) = labels[k]
             /\ KeyOf(items[k]) # None => KeyOf(items[k])[1] \in EntryTokens(out, k)

\* the collections a tool enumerates in its output, in the order of the output
Collections(tool, body) ==
    CASE tool \in {"get_user_recent_tweets"} \cup PageTools ->
           << Get(body, "tweets", <<>>) >>
      [] tool \in {"get_user_followers", "get_user_following", "get_tweet_retweeters",
                   "batch_get_users_by_ids"} ->
           << Get(body, "users", <<>>) >>
      [] tool = "get_tweet_thread_context" ->
           << Get(body, "before", <<>>), Get(body, "after", <<>>) >>
      [] tool = "get_trends" -> << Get(body, "trends", <<>>) >>
      [] OTHER -> <<>>

\* C12: every enumerated rendering (tweet lists, user lists, trends, the parents
\* and the replies of a thread) of N items holds exactly N numbered entries,
\* numbered 1..N without gap or repeat, the entry numbered i rendering the i-th
\* item of the collection: nothing is re-sorted, dropped or duplicated.
C12_EntriesNumberedInOrder ==
    /\ (fmt.fn \in {"format_tweet_list", "format_trend"} /\ fmt.arg # <<>>) =>
         /\ fmt.res.exc = None
         /\ Enumerates(fmt.res.lines, <<fmt.arg>>)
    /\ \A s \in Slots :
         (/\ Rendered(calls[s])
          /\ ~EmptyCollection(calls[s].tool, Body(calls[s]))
          /\ Collections(calls[s].tool, Body(calls[s])) # <<>>) =>
            Enumerates(calls[s].out, Collections(calls[s].tool, Body(calls[s])))

\* the cursor the pagination hint of a rendering shows
HintCursor(out) ==
    LET i == CHOOSE j \in 1..Len(out) :
                 out[j] # <<>> /\ out[j][1] = "More results available. Use cursor: "
    IN  out[i][2]

\* C13: the pagination cursor is opaque end to end: the cursor a tool's hint
\* shows is the next_cursor of the upstream response, and a caller who passes a
\* cursor to search_tweets or get_user_mentions has it sent upstream, unmodified,
\* as the cursor parameter of the request.
C13_CursorRoundTrip ==
    \A s \in Slots :
        /\ (Rendered(calls[s]) /\ HasHint(calls[s].out)) =>
             /\ Has(Body(calls[s]), "next_cursor")
             /\ HintCursor(calls[s].out) = Body(calls[s])["next_cursor"]
        /\ (/\ calls[s].tool \in {"search_tweets", "get_user_mentions"}
            /\ calls[s].args.cursor # "") =>
             /\ calls[s].requests # <<>>
             /\ Has(Params(calls[s]), "cursor")
             /\ Params(calls[s])["cursor"] = calls[s].args.cursor

\* the path C14 names for each operation, under the base URL's /twitter
PathOf(tool) ==
    CASE tool = "get_tweet" -> "tweets"
      [] tool = "get_user_profile" -> "user/info"
      [] tool = "batch_get_users_by_ids" -> "user/user_by_ids"
      [] tool = "get_user_recent_tweets" -> "user/tweets"
      [] tool = "get_user_followers" -> "user/followers"
      [] tool = "get_user_following" -> "user/followings"
      [] tool = "get_user_mentions" -> "user/mentions"
      [] tool = "search_tweets" -> "tweet/advanced_search"
      [] tool = "get_tweet_replies" -> "tweet/replies"
      [] tool = "get_tweet_quotations" -> "tweet/quotes"
      [] tool = "get_tweet_retweeters" -> "tweet/retweeters"
      [] tool = "get_tweet_thread_context" -> "tweet/thread_context"
      [] tool = "get_list_tweets" -> "list/tweets"
      [] tool = "get_trends" -> "trends"

\* the request is a GET to the operation's path
GetTo(r, tool) ==
    /\ r.method = "GET"
    /\ r.url = BASE_URL \o "/twitter/" \o PathOf(tool)

\* the request carries the invocation's identifying argument under the
\* operation's parameter; the ids of the batch fetch joined by commas, the
\* blanks around them gone
IdentifiesBy(r, tool, args) ==
    CASE tool = "get_tweet" ->
           Has(r.params, "tweet_ids") /\ r.params["tweet_ids"] = args.tweet_id
      [] tool \in {"get_user_profile", "get_user_recent_tweets", "get_user_followers",
                   "get_user_following", "get_user_mentions"} ->
           Has(r.params, "userName") /\ r.params["userName"] = args.username
      [] tool \in {"get_tweet_replies", "get_tweet_quotations", "get_tweet_retweeters",
                   "get_tweet_thread_context"} ->
           Has(r.params, "tweetId") /\ r.params["tweetId"] = args.tweet_id
      [] tool = "get_list_tweets" ->
           Has(r.params, "listId") /\ r.params["listId"] = args.list_id
      [] tool = "search_tweets" ->
           Has(r.params, "query") /\ r.params["query"] = args.query
      [] tool = "batch_get_users_by_ids" ->
           /\ Has(r.params, "userIds")
           /\ r.params["userIds"] = SelectSeq(args.user_ids, LAMBDA ch : ch # " ")
      [] tool = "get_trends" -> r.params = <<>>

\* C14: every request of every operation is an HTTP GET to the one fixed path
\* of the operation under the base URL; two operations never share a path; and
\* the identifying argument travels under the operation's named parameter
\* (userName, tweetId, listId, the comma-joined ids of the batch user fetch).
C14_GetToFixedPath ==
    /\ \A t1, t2 \in Tools : t1 # t2 => PathOf(t1) # PathOf(t2)
    /\ \A i \in 1..Len(selftest.requests) :
         GetTo(selftest.requests[i], "get_user_profile")
    /\ \A s \in Slots : \A i \in 1..Len(calls[s].requests) :
         /\ GetTo(calls[s].requests[i], calls[s].tool)
         /\ IdentifiesBy(calls[s].requests[i], calls[s].tool, calls[s].args)

\* C14's case: the batch fetch of "1, 2" has asked user/user_by_ids for "1,2"
C14_Witness ==
    /\ calls[1].tool = "batch_get_users_by_ids"
    /\ calls[1].args.user_ids = <<"1", ",", " ", "2">>
    /\ calls[1].requests # <<>>
    /\ calls[1].requests[1].method = "GET"
    /\ calls[1].requests[1].url = "https://api.twitterapi.io/twitter/user/user_by_ids"
    /\ calls[1].requests[1].params = ("userIds" :> <<"1", ",", "2">>)

\* the verb of a tool's Error string: "searching" for search_tweets,
\* "retrieving" for every other tool
HasVerb(tool, prefix) ==
    IF tool = "search_tweets" THEN prefix = "Error searching tweets: "
    ELSE prefix \in ErrorPrefixes \ {"Error searching tweets: "}

\* the context the lifespan yields under the environment
YieldedContext == [api_key |-> env.TWITTER_API_KEY[1], client |-> 1, base_url |-> BASE_URL]

\* C15: when the upstream request of an invocation fails (a non-2xx status, a
\* transport failure) the tool returns "Error retrieving ..." or "Error
\* searching ...", and the server keeps running with its key, client and base
\* URL unchanged: a further invocation is served, and every invocation issues
\* the request it would have issued had no invocation failed.
C15_FailureLeavesServerRunning ==
    \A s \in Slots :
        /\ (calls[s].resp # None /\ Failed(calls[s].resp[1])) =>
             /\ calls[s].pc = "returned"
             /\ IsError(calls[s].out)
             /\ HasVerb(calls[s].tool, calls[s].out[1][1])
             /\ pc = "serving"
             /\ client = "open"
             /\ ctx = Some(YieldedContext)
             /\ ENABLED AnyToolInvoked
        /\ calls[s].pc # "idle" =>
             calls[s].requests =
               ToolRequest(calls[s].tool, YieldedContext, env, calls[s].args).req

\* C15's case: the request of search_tweets met a transport failure, the tool
\* returned its Error string and the server is ready for the next invocation
C15_Witness ==
    /\ calls[1].tool = "search_tweets"
    /\ calls[1].resp = Some(Transport)
    /\ calls[1].out = << <<"Error searching tweets: ", "transport failure">> >>
    /\ pc = "serving"
    /\ client = "open"
    /\ ENABLED AnyToolInvoked

\* the step is one of the invocation in slot s: it is invoked or answered
StepOf(s) == pc' = pc /\ calls'[s].pc # calls[s].pc

SectionAt(out, heading) == {i \in 1..Len(out) : out[i] = <<heading>>}

\* the heading stands once in the rendering if the slot holds something, and not
\* at all if it holds nothing
SectionIff(out, heading, slot) ==
    Cardinality(SectionAt(out, heading)) = IF slot # <<>> THEN 1 ELSE 0

\* every heading of the first kind stands above every heading of the second
Above(out, first, second) ==
    \A i \in SectionAt(out, first) : \A j \in SectionAt(out, second) : i < j

\* C17: get_tweet_thread_context returns the "No thread context found for tweet
\* ID: ..." sentinel exactly when before and after are both empty or absent,
\* main_tweet present or not; otherwise its output holds the sections PARENT
\* TWEETS, MAIN TWEET, REPLIES in that order, each present exactly when its slot
\* (before, main_tweet, after) is not empty.
C17_ThreadSections ==
    \A s \in Slots :
        (calls[s].tool = "get_tweet_thread_context" /\ Rendered(calls[s])) =>
            LET out    == calls[s].out
                before == Get(Body(calls[s]), "before", <<>>)
                main   == Get(Body(calls[s]), "main_tweet", <<>>)
                after  == Get(Body(calls[s]), "after", <<>>)
            IN  /\ out = << ToolSentinel(calls[s].tool, calls[s].args) >>
                     <=> (before = <<>> /\ after = <<>>)
                /\ (before # <<>> \/ after # <<>>) =>
                     /\ SectionIff(out, "PARENT TWEETS:", before)
                     /\ SectionIff(out, "MAIN TWEET:", main)
                     /\ SectionIff(out, "REPLIES:", after)
                     /\ Above(out, "PARENT TWEETS:", "MAIN TWEET:")
                     /\ Above(out, "MAIN TWEET:", "REPLIES:")
                     /\ Above(out, "PARENT TWEETS:", "REPLIES:")

\* the step issues a request: the connection test starts, or an invocation
\* reaches its await
IssuesRequest ==
    \/ pc # "selftest" /\ pc' = "selftest"
    \/ \E s \in Slots : calls[s].pc # "awaiting" /\ calls'[s].pc = "awaiting"

\* C18: one HTTP client is created per run of twitter_lifespan, after the
\* API-key check; the startup self-test and every tool invocation use that
\* client; it is closed on every exit of the lifespan, after a failed self-test
\* as after a normal shutdown; and no request is issued on it before it is
\* opened or after it is closed.
C18_OneClient ==
    /\ [](/\ created <= 1
          /\ created = 0 <=> client = "none"
          /\ client # "none" => ~KeyMissing(env.TWITTER_API_KEY)
          /\ \A i \in 1..Len(selftest.requests) : selftest.requests[i].client = 1
          /\ \A s \in Slots : \A i \in 1..Len(calls[s].requests) :
                 calls[s].requests[i].client = 1
          /\ ctx # None => ctx[1].client = 1
          /\ pc \in {"start", "config_error"} => client = "none"
          /\ pc \in {"selftest", "serving"} => client = "open"
          /\ pc \in {"aborted", "shutdown"} => client = "closed")
    /\ [][/\ client' # client =>
               \/ client = "none" /\ client' = "open" /\ created' = created + 1
               \/ client = "open" /\ client' = "closed" /\ created' = created
          /\ client' = client => created' = created
          /\ IssuesRequest => client' = "open"]_vars

\* C18's case: the server was stopped after the self-test and a tool invocation
\* had each issued a request on the one client, and the client is closed
C18_Witness ==
    /\ pc = "shutdown"
    /\ client = "closed"
    /\ created = 1
    /\ selftest.requests # <<>> /\ selftest.requests[1].client = 1
    /\ \E s \in Slots : calls[s].requests # <<>> /\ calls[s].requests[1].client = 1

====
